---- MODULE Spec2Model ----
(***************************************************************************)
(* Model of helix-term/src/ui/picker.rs: the fuzzy Picker (options,        *)
(* matches, filters, cursor, prompt line) and the FilePicker built on it   *)
(* (preview cache, live-document lookup, file loads).                      *)
(*                                                                         *)
(* Candidate indices and the cursor are 0-based, as in the source; TLA+    *)
(* sequences are 1-based, so options[i + 1] is the candidate at index i.   *)
(***************************************************************************)
EXTENDS Integers, Sequences, FiniteSets, TLC

VARIABLES
    options,    \* Picker::options, fixed at construction
    scorer,     \* Picker::matcher, the scores it gives to (text, pattern)
    query,      \* Picker::prompt.line, a sequence of characters
    matches,    \* Picker::matches, a sequence of <<index, score>>
    filters,    \* Picker::filters, a sequence of indices
    cursor,     \* Picker::cursor
    dispatched, \* the calls made to Picker::callback_fn, in order
    fileFn,         \* FilePicker::file_fn, the file of each candidate
    preview_cache,  \* FilePicker::preview_cache, canonical path -> loaded content
    documents,      \* the editor's open documents, by canonical path
    status,         \* "running", "closed" once the picker has asked to be removed,
                    \* "panicked" once an unwrap() has failed, "overflow" once
                    \* a u16 operation has panicked, or "div_by_zero" once a
                    \* division by zero has panicked
    preview,        \* what the render that has just run looked up for the preview pane
    window,         \* the rows the render that has just run listed
    cursorBefore,   \* history: the cursor before the move_up or move_down that has
                    \* just run
    areaGeometry,   \* history: what the area of the render that has just run
                    \* leaves for the list of matches
    scoredLine,     \* history: the pattern the score() that has just run read
                    \* from the prompt
    rescored,       \* history: score() has just run for the second time in a row
                    \* on the same options, filters and pattern
    canon,          \* history: what canonicalize_path answered to the two calls
                    \* of current_file in the render that has just run
    loads,          \* history: Document::open calls made, per canonical path
    firstLoad,      \* history: what the first successful load of each path returned
    saved,          \* history: save_filter has run at least once
    lastOp          \* history: the last operation that ran

pickerVars == <<options, scorer, query, matches, filters, cursor, saved,
               dispatched>>
fileVars == <<fileFn, preview_cache, documents, status, loads, firstLoad>>
vars == <<pickerVars, fileVars, preview, window, areaGeometry, canon, cursorBefore,
          rescored, scoredLine, lastOp>>

-----------------------------------------------------------------------------
(* Bounds *)

MaxOptions == 3
MaxQueryLen == 2
\* the candidates of a FilePicker
MaxFileOptions == 2
\* the rows the terminal leaves for the list of matches
MaxRows == 2

\* The size of the inside of the picker's bordered block, as the terminal
\* gives it.  The list takes the height less the two rows of the prompt and
\* the separator, and the width less the three columns of the marker of the
\* current item: a width that fails the first subtraction, one that fails
\* the second, and one that leaves the list two columns.
InnerHeights == 0..(MaxRows + 2)
InnerWidths == {0, 2, 5}

\* The areas the terminal may give a FilePicker: a width below and one above
\* the least width for a preview; a height that leaves the picker's block
\* too low for the subtractions, one that leaves the list no row, and one
\* that leaves it a row.
FileAreas == {[width |-> w, height |-> h] : w \in {60, 100}, h \in 3..5}

-----------------------------------------------------------------------------
(* Candidates, their display text, and the matcher *)

Alphabet == {"a", "b"}

\* The candidate kinds a caller may put into the picker.
Items == {"item_a", "item_ab"}

\* format_fn: the display text of a candidate.
Format(item) ==
    CASE item = "item_a" -> <<"a">>
      [] item = "item_ab" -> <<"a", "b">>

Texts == {Format(item) : item \in Items}

NoScore == -1

ScoreVals == {1, 2}

\* The lines the prompt can hold.
Patterns == UNION {[1..n -> Alphabet] : n \in 0..MaxQueryLen}

RECURSIVE IsSubsequence(_, _)
\* pattern's characters occur in text, in order
IsSubsequence(pattern, text) ==
    IF pattern = <<>> THEN TRUE
    ELSE IF text = <<>> THEN FALSE
    ELSE IF Head(pattern) = Head(text)
         THEN IsSubsequence(Tail(pattern), Tail(text))
         ELSE IsSubsequence(pattern, Tail(text))

\* The (text, pattern) pairs for which the matcher has a free choice of score.
ScoredPairs ==
    {tp \in Texts \X (Patterns \ {<<>>}) : IsSubsequence(tp[2], tp[1])}

\* matcher.fuzzy_match(text, pattern): an empty pattern matches everything with
\* score 0; a pattern that is no subsequence of the text gives None; otherwise
\* the matcher's score for the pair.
FuzzyMatch(text, pattern) ==
    IF pattern = <<>> THEN 0
    ELSE IF ~IsSubsequence(pattern, text) THEN NoScore
    ELSE scorer[<<text, pattern>>]

-----------------------------------------------------------------------------
(* Files *)

\* canonical paths
Paths == {"f1", "f2"}

\* file contents a load can return
Contents == {"v1", "v2"}

\* no file location / canonicalization failed
NoFile == "no_file"

\* Document::open returned Err
LoadError == "load_error"

\* no preview lookup: the pane was not drawn (narrow area, or the render
\* panicked), or the render has returned and its result is gone
NotRendered == [path |-> NoFile, shown |-> "not_rendered", content |-> "none"]

\* canonicalize_path was not called: no render has just run, or the
\* highlighted candidate has no file
NotAsked == "not_asked"

\* neither call of current_file was made
NoCanon == [calc |-> NotAsked, lookup |-> NotAsked]

\* no list of matches drawn: no render has just run, or it panicked
NoWindow == [rows |-> 0, offset |-> 0, visible |-> <<>>]

\* no render has just run
NoGeometry == [status |-> "none", rows |-> 0]

\* no score() has just run
NoLine == <<>>

-----------------------------------------------------------------------------
(* Vec helpers *)

Range(s) == {s[k] : k \in 1..Len(s)}

RECURSIVE BinarySearchIn(_, _, _, _)
\* slice::binary_search over s[lo..hi) (0-based, hi exclusive): found or not
BinarySearchIn(s, lo, hi, x) ==
    IF lo >= hi THEN FALSE
    ELSE LET mid == lo + (hi - lo) \div 2
         IN  IF s[mid + 1] = x THEN TRUE
             ELSE IF s[mid + 1] < x THEN BinarySearchIn(s, mid + 1, hi, x)
             ELSE BinarySearchIn(s, lo, mid, x)

\* filters.binary_search(&index).ok()
BinarySearch(s, x) == BinarySearchIn(s, 0, Len(s), x)

RECURSIVE InsertSorted(_, _)
InsertSorted(s, x) ==
    IF s = <<>> THEN <<x>>
    ELSE IF x <= Head(s) THEN <<x>> \o s
    ELSE <<Head(s)>> \o InsertSorted(Tail(s), x)

RECURSIVE SortUnstable(_)
\* filters.sort_unstable() on indices: equal elements are indistinguishable,
\* so the result is the one ascending arrangement
SortUnstable(s) ==
    IF s = <<>> THEN <<>>
    ELSE InsertSorted(SortUnstable(Tail(s)), Head(s))

\* s without its k-th entry
Remove(s, k) == SubSeq(s, 1, k - 1) \o SubSeq(s, k + 1, Len(s))

RECURSIVE SortUnstableByKey(_)
\* matches.sort_unstable_by_key(|(_, score)| -score): the key ascends, so the
\* score descends; the order of entries with equal keys is not specified, so
\* every arrangement with ascending keys is a possible outcome: any entry of
\* least key first, then any such arrangement of the others.
SortUnstableByKey(s) ==
    IF s = <<>> THEN {<<>>}
    ELSE UNION { {<<s[k]>> \o t : t \in SortUnstableByKey(Remove(s, k))} :
                 k \in {i \in 1..Len(s) :
                            \A j \in 1..Len(s) : -s[i][2] <= -s[j][2]} }

-----------------------------------------------------------------------------
(* Picker::score *)

RECURSIVE FilterMap(_, _, _, _)
\* options.iter().enumerate().filter_map(...) from index `index` on
FilterMap(opts, flt, pattern, index) ==
    IF index >= Len(opts) THEN <<>>
    ELSE LET rest == FilterMap(opts, flt, pattern, index + 1)
             score == FuzzyMatch(Format(opts[index + 1]), pattern)
         IN  IF flt # <<>> /\ ~BinarySearch(flt, index) THEN rest
             ELSE IF score = NoScore THEN rest
             ELSE <<(<<index, score>>)>> \o rest

\* the arrangements score() may leave in matches, over all builds
ScoreOutcomes(opts, flt, pattern) ==
    SortUnstableByKey(FilterMap(opts, flt, pattern, 0))

\* is_less of sort_unstable_by_key(|(_, score)| -score): a's key is less
IsLess(a, b) == -a[2] < -b[2]

RECURSIVE InsertByKey(_, _)
\* insertion sort, one entry: x moves left past the entries of greater key
\* (smaller score), and stops behind an entry of equal key
InsertByKey(t, x) ==
    IF t = <<>> THEN <<x>>
    ELSE IF ~IsLess(x, t[Len(t)]) THEN Append(t, x)
    ELSE Append(InsertByKey(SubSeq(t, 1, Len(t) - 1), x), t[Len(t)])

RECURSIVE InsertionSortByKey(_)
\* insertion sort by the key -score: entries of equal key keep their order
InsertionSortByKey(s) ==
    IF s = <<>> THEN <<>>
    ELSE InsertByKey(InsertionSortByKey(SubSeq(s, 1, Len(s) - 1)), s[Len(s)])

\* slice::sort_unstable_by_key leaves a slice of up to this many entries in
\* the order of a stable sort: up to 20 entries are sorted by insertion, and
\* the quicksort hands a slice of up to 32 entries to a small sort that
\* merges sorted runs, keeping entries of equal key in their order
SmallSortMax == 32

\* the quicksort's recursion limit is 2 * floor(log2(len)) partitions, 10
\* from 32 entries on; every partition takes at least the pivot off the
\* slice, so a slice of up to this many entries reaches SmallSortMax before
\* the limit is used up and is never handed to the heapsort
QuickSortMax == 42

\* median3 of choose_pivot: the position of the median of v[a], v[b], v[c]
Median3(v, a, b, c) ==
    LET x == IsLess(v[a], v[b])
        y == IsLess(v[a], v[c])
        z == IsLess(v[b], v[c])
    IN  IF x = y THEN (IF z = x THEN b ELSE c) ELSE a

\* choose_pivot on a slice of 8 to 63 entries: the median of the entries at
\* 0, len/8*4 and len/8*7 (positions counted from 1 here)
ChoosePivot(v) ==
    Median3(v, 1, (Len(v) \div 8) * 4 + 1, (Len(v) \div 8) * 7 + 1)

\* the partition's test of an entry e against the pivot p: is_less(e, p),
\* and !is_less(p, e) when the entries equal to the pivot go left as well
GoesLeft(e, p, orEqual) == IF orEqual THEN ~IsLess(p, e) ELSE IsLess(e, p)

RECURSIVE LomutoLoop(_, _, _, _, _, _, _)
\* partition_lomuto_branchless_cyclic, the loop: the entry at `right` (at the
\* end the entry taken out of the gap) goes to the end of the left part, the
\* entry it displaces fills the gap, and the gap moves to `right`
LomutoLoop(w, gap, numLt, right, gapValue, p, orEqual) ==
    LET rv == IF right > Len(w) THEN gapValue ELSE w[right]
        moved == [w EXCEPT ![gap] = w[numLt + 1], ![numLt + 1] = rv]
        lt == numLt + (IF GoesLeft(rv, p, orEqual) THEN 1 ELSE 0)
    IN  IF right > Len(w) THEN [v |-> moved, num_lt |-> lt]
        ELSE LomutoLoop(moved, right, lt, right + 1, gapValue, p, orEqual)

\* partition_lomuto_branchless_cyclic(w, p): the entries of w that go left
\* of p come first; num_lt counts them
LomutoCyclic(w, p, orEqual) ==
    IF w = <<>> THEN [v |-> w, num_lt |-> 0]
    ELSE LomutoLoop(w, 1, 0, 2, w[1], p, orEqual)

\* partition(v, pivot): the pivot is swapped to the front, the rest is
\* partitioned against it, and the pivot is swapped to its place num_lt
Partition(v, pivot, orEqual) ==
    LET front == [v EXCEPT ![1] = v[pivot], ![pivot] = v[1]]
        r == LomutoCyclic(Tail(front), front[1], orEqual)
        full == <<front[1]>> \o r.v
    IN  [v |-> [full EXCEPT ![1] = full[r.num_lt + 1],
                            ![r.num_lt + 1] = full[1]],
         num_lt |-> r.num_lt]

RECURSIVE QuickSort(_, _, _)
\* quicksort(v, ancestor_pivot) on a slice of up to QuickSortMax entries: a
\* short slice goes to the small sort; a slice whose pivot equals the pivot
\* of the slice it was cut from is partitioned with the equal entries on the
\* left, and only the right part is sorted on; otherwise the left part is
\* sorted under the same ancestor and the right part under this pivot
QuickSort(v, ancestor, hasAncestor) ==
    IF Len(v) <= SmallSortMax THEN InsertionSortByKey(v)
    ELSE LET pivot == ChoosePivot(v)
         IN  IF hasAncestor /\ ~IsLess(ancestor, v[pivot])
             THEN LET r == Partition(v, pivot, TRUE)
                  IN  SubSeq(r.v, 1, r.num_lt + 1)
                      \o QuickSort(SubSeq(r.v, r.num_lt + 2, Len(v)),
                                   ancestor, FALSE)
             ELSE LET r == Partition(v, pivot, FALSE)
                  IN  QuickSort(SubSeq(r.v, 1, r.num_lt), ancestor,
                                hasAncestor)
                      \o <<r.v[r.num_lt + 1]>>
                      \o QuickSort(SubSeq(r.v, r.num_lt + 2, Len(v)),
                                   r.v[r.num_lt + 1], TRUE)

\* s back to front
Reverse(s) == [k \in 1..Len(s) |-> s[Len(s) + 1 - k]]

\* ipnsort on a slice of up to QuickSortMax entries: a slice that is one run
\* already, its keys never descending, is left as it is; one whose keys
\* descend strictly throughout is reversed; any other slice is quicksorted.
\* Up to SmallSortMax entries all of this gives the stable order.
IpnSort(s) ==
    IF Len(s) <= SmallSortMax THEN InsertionSortByKey(s)
    ELSE IF \A k \in 1..(Len(s) - 1) : ~IsLess(s[k + 1], s[k]) THEN s
    ELSE IF \A k \in 1..(Len(s) - 1) : IsLess(s[k + 1], s[k])
         THEN Reverse(s)
    ELSE QuickSort(s, <<0, 0>>, FALSE)

\* A sort that is no function of the vector: it may also leave the stable
\* order where the build's sort leaves another.
SortOutcomesEitherOrder(s) == {IpnSort(s), InsertionSortByKey(s)}

\* matches.sort_unstable_by_key(..) as the build runs it: what it leaves of
\* the vector s.  The sort is a function of the vector, computed here step
\* by step for up to QuickSortMax entries; of a longer vector only the
\* ascending keys are known.
SortOutcomes(s) ==
    IF Len(s) <= QuickSortMax THEN {IpnSort(s)} ELSE SortUnstableByKey(s)

\* matches.clear()
Clear(m) == <<>>

\* Picker::score, the vector before the sort: the allocation is cleared and
\* refilled with the scored candidates
ScoreInput(m, opts, flt, pattern) ==
    Clear(m) \o FilterMap(opts, flt, pattern, 0)

\* Picker::score, the new matches: what the sort may leave of that vector
ScoreMatches(m, opts, flt, pattern) ==
    SortOutcomes(ScoreInput(m, opts, flt, pattern))

-----------------------------------------------------------------------------
(* Prompt *)

\* The key events the picker forwards to the prompt, by their effect on the
\* line: a character typed, a character deleted, or a motion that leaves the
\* line alone.
PromptEvents == {<<"char", c>> : c \in Alphabet} \cup {<<"backspace">>, <<"motion">>}

\* Prompt::handle_event: the line after the event.
PromptLine(line, ev) ==
    CASE ev[1] = "char" -> Append(line, ev[2])
      [] ev[1] = "backspace" ->
            IF line = <<>> THEN line ELSE SubSeq(line, 1, Len(line) - 1)
      [] ev[1] = "motion" -> line

-----------------------------------------------------------------------------
(* Picker operations *)

\* A move_up that wraps from the first match to the last.
MoveUpCursorWrapping(c) ==
    IF c = 0 THEN (IF matches = <<>> THEN 0 ELSE Len(matches) - 1) ELSE c - 1

\* usize::saturating_sub(1)
MoveUpCursor(c) == IF c = 0 THEN 0 ELSE c - 1

\* An off-by-one move_down: compares against len instead of len - 1.
MoveDownCursorPastEnd(c, m) ==
    IF m = <<>> THEN c
    ELSE IF c < Len(m) THEN c + 1 ELSE c

\* Picker::move_down
MoveDownCursor(c, m) ==
    IF m = <<>> THEN c
    ELSE IF c < Len(m) - 1 THEN c + 1 ELSE c

\* A save_filter that forgets to sort the collected indices.
SavedFiltersUnsorted(m) == [k \in 1..Len(m) |-> m[k][1]]

\* Picker::save_filter, the new filters
SavedFilters(m) == SortUnstable([k \in 1..Len(m) |-> m[k][1]])

\* the candidate vectors of up to maxLen candidates a caller may hand over
OptionVecs(maxLen) == UNION {[1..n -> Items] : n \in 0..maxLen}

\* Picker::new: the fields as given, then score() on the empty prompt.
PickerNew(optionVecs, scorers) ==
    /\ options \in optionVecs
    /\ scorer \in scorers
    /\ query = <<>>
    /\ filters = <<>>
    /\ matches \in ScoreMatches(<<>>, options, <<>>, <<>>)
    /\ cursor = 0
    /\ cursorBefore = 0
    /\ rescored = FALSE
    /\ scoredLine = <<query>>
    /\ dispatched = <<>>
    /\ saved = FALSE
    /\ status = "running"
    /\ lastOp = "new"

\* A Picker on its own: no file function, no preview cache.
Init ==
    /\ PickerNew(OptionVecs(MaxOptions), [ScoredPairs -> ScoreVals])
    /\ fileFn = [item \in Items |-> NoFile]
    /\ preview_cache = <<>>
    /\ documents = {}
    /\ preview = NotRendered
    /\ window = NoWindow
    /\ canon = NoCanon
    /\ areaGeometry = NoGeometry
    /\ loads = [p \in Paths |-> 0]
    /\ firstLoad = [p \in Paths |-> "none"]

\* handle_event, Up / BackTab / Ctrl-p: move_up()
KeyUp ==
    /\ status = "running"
    /\ cursor' = MoveUpCursor(cursor)
    /\ lastOp' = "move_up"
    /\ UNCHANGED <<options, scorer, dispatched, query, matches, filters, saved, fileVars>>
    /\ preview' = NotRendered
    /\ window' = NoWindow
    /\ canon' = NoCanon
    /\ areaGeometry' = NoGeometry
    /\ cursorBefore' = cursor
    /\ rescored' = FALSE
    /\ scoredLine' = NoLine

\* handle_event, Down / Tab / Ctrl-n: move_down()
KeyDown ==
    /\ status = "running"
    /\ cursor' = MoveDownCursor(cursor, matches)
    /\ lastOp' = "move_down"
    /\ UNCHANGED <<options, scorer, dispatched, query, matches, filters, saved, fileVars>>
    /\ preview' = NotRendered
    /\ window' = NoWindow
    /\ canon' = NoCanon
    /\ areaGeometry' = NoGeometry
    /\ cursorBefore' = cursor
    /\ rescored' = FALSE
    /\ scoredLine' = NoLine

\* A Ctrl-Space handler that rescans after saving.
KeySaveFilterRescan ==
    /\ status = "running"
    /\ filters' = SavedFilters(matches)
    /\ query' = <<>>
    /\ matches' \in ScoreMatches(matches, options, filters', query')
    /\ cursor' = 0
    /\ saved' = TRUE
    /\ lastOp' = "save_filter"
    /\ UNCHANGED <<options, scorer, dispatched, fileVars>>
    /\ preview' = NotRendered
    /\ window' = NoWindow
    /\ canon' = NoCanon
    /\ areaGeometry' = NoGeometry
    /\ cursorBefore' = 0
    /\ rescored' = FALSE
    /\ scoredLine' = NoLine

\* handle_event, Ctrl-Space: save_filter()
KeySaveFilter ==
    /\ status = "running"
    /\ filters' = SavedFilters(matches)
    /\ query' = <<>>
    /\ saved' = TRUE
    /\ lastOp' = "save_filter"
    /\ UNCHANGED <<options, scorer, dispatched, matches, cursor, fileVars>>
    /\ preview' = NotRendered
    /\ window' = NoWindow
    /\ canon' = NoCanon
    /\ areaGeometry' = NoGeometry
    /\ cursorBefore' = 0
    /\ rescored' = FALSE
    /\ scoredLine' = NoLine

\* A prompt key whose rescan also drops the saved filters.
KeyPromptDroppingScope ==
    \E ev \in PromptEvents :
        /\ status = "running"
        /\ Len(PromptLine(query, ev)) <= MaxQueryLen
        /\ query' = PromptLine(query, ev)
        /\ matches' \in ScoreMatches(matches, options, <<>>, query')
        /\ cursor' = 0
        /\ lastOp' = "score"
        /\ filters' = <<>>
        /\ UNCHANGED <<options, scorer, dispatched, saved, fileVars>>
        /\ preview' = NotRendered
        /\ window' = NoWindow
        /\ canon' = NoCanon
        /\ areaGeometry' = NoGeometry
        /\ cursorBefore' = 0
        /\ rescored' = (lastOp \in {"new", "score"} /\ query' = query)
        /\ scoredLine' = <<PromptLine(query, ev)>>

\* handle_event, any other key: the prompt consumes it, then score()
KeyPrompt ==
    \E ev \in PromptEvents :
        /\ status = "running"
        /\ Len(PromptLine(query, ev)) <= MaxQueryLen
        /\ query' = PromptLine(query, ev)
        /\ matches' \in ScoreMatches(matches, options, filters, query')
        /\ cursor' = 0
        /\ lastOp' = "score"
        /\ UNCHANGED <<options, scorer, dispatched, filters, saved, fileVars>>
        /\ preview' = NotRendered
        /\ window' = NoWindow
        /\ canon' = NoCanon
        /\ areaGeometry' = NoGeometry
        /\ cursorBefore' = 0
        /\ rescored' = (lastOp \in {"new", "score"} /\ query' = query)
        /\ scoredLine' = <<PromptLine(query, ev)>>

\* Picker::selection: the highlighted candidate, if any
Selection ==
    IF cursor < Len(matches) THEN <<options[matches[cursor + 1][1] + 1]>>
    ELSE <<>>

\* the keys that confirm the selection
ConfirmKeys == {"enter", "ctrl_h", "ctrl_v"}

\* Confirm keys that all pass the same Action.
ActionOfKeyAlwaysReplace(key) == "Replace"

\* The Action each confirm key passes to callback_fn.
ActionOfKey(key) ==
    CASE key = "enter" -> "Replace"
      [] key = "ctrl_h" -> "HorizontalSplit"
      [] key = "ctrl_v" -> "VerticalSplit"

\* handle_event, Enter / Ctrl-h / Ctrl-v: callback_fn on the selection, if
\* there is one, then close_fn
KeyConfirm ==
    \E key \in ConfirmKeys :
        /\ status = "running"
        /\ dispatched' =
              IF Selection # <<>>
              THEN Append(dispatched, [index |-> matches[cursor + 1][1],
                                       option |-> Selection[1],
                                       action |-> ActionOfKey(key)])
              ELSE dispatched
        /\ status' = "closed"
        /\ lastOp' = key
        /\ preview' = NotRendered
        /\ window' = NoWindow
        /\ canon' = NoCanon
        /\ areaGeometry' = NoGeometry
        /\ cursorBefore' = 0
        /\ rescored' = FALSE
        /\ scoredLine' = NoLine
        /\ UNCHANGED <<options, scorer, query, matches, filters, cursor,
                       saved, fileFn, preview_cache, documents, loads, firstLoad>>

\* A cancel that calls callback_fn on the selection before it closes.
KeyCancelDispatching ==
    /\ status = "running"
    /\ dispatched' =
          IF Selection # <<>>
          THEN Append(dispatched, [index |-> matches[cursor + 1][1],
                                   option |-> Selection[1],
                                   action |-> "Replace"])
          ELSE dispatched
    /\ status' = "closed"
    /\ lastOp' = "cancel"
    /\ preview' = NotRendered
    /\ window' = NoWindow
    /\ canon' = NoCanon
    /\ areaGeometry' = NoGeometry
    /\ cursorBefore' = 0
    /\ rescored' = FALSE
    /\ scoredLine' = NoLine
    /\ UNCHANGED <<options, scorer, query, matches, filters, cursor,
                   saved, fileFn, preview_cache, documents, loads, firstLoad>>

\* handle_event, Esc / Ctrl-c: close_fn
KeyCancel ==
    /\ status = "running"
    /\ status' = "closed"
    /\ lastOp' = "cancel"
    /\ preview' = NotRendered
    /\ window' = NoWindow
    /\ canon' = NoCanon
    /\ areaGeometry' = NoGeometry
    /\ cursorBefore' = 0
    /\ rescored' = FALSE
    /\ scoredLine' = NoLine
    /\ UNCHANGED <<pickerVars, fileFn, preview_cache, documents, loads, firstLoad>>

\* handle_event, Event::Resize: consumed, nothing else
Resize ==
    /\ status = "running"
    /\ lastOp' = "resize"
    /\ preview' = NotRendered
    /\ window' = NoWindow
    /\ canon' = NoCanon
    /\ areaGeometry' = NoGeometry
    /\ cursorBefore' = 0
    /\ rescored' = FALSE
    /\ scoredLine' = NoLine
    /\ UNCHANGED <<pickerVars, fileVars>>

\* Picker::render: offset = cursor / rows * rows, for rows > 0
WindowOffset(c, rows) == (c \div rows) * rows

\* Picker::render: matches.iter().skip(offset).take(rows)
Visible(m, offset, rows) ==
    SubSeq(m, offset + 1, IF offset + rows < Len(m) THEN offset + rows ELSE Len(m))

\* Picker::render: the window drawn for a row budget rows > 0
WindowAt(rows) ==
    [rows |-> rows,
     offset |-> WindowOffset(cursor, rows),
     visible |-> Visible(matches, WindowOffset(cursor, rows), rows)]

\* the largest u16
U16Max == 65535

\* u16 subtraction as a build without overflow checks computes it
WrappingSub(a, b) == (a - b + U16Max + 1) % (U16Max + 1)

RECURSIVE ISqrtIn(_, _, _)
\* the largest n in lo..hi with n * n <= q, given lo * lo <= q
ISqrtIn(lo, hi, q) ==
    IF lo = hi THEN lo
    ELSE LET mid == (lo + hi + 1) \div 2
         IN  IF mid <= q \div mid THEN ISqrtIn(mid, hi, q)
             ELSE ISqrtIn(lo, mid - 1, q)

\* u16 multiplication as a build without overflow checks computes it
WrappingMul(a, b) == (a * b) % (U16Max + 1)

\* the height of Rect::new(x, y, width, height): a rectangle whose area
\* exceeds the largest u16 is shrunk, keeping its aspect ratio, to that
\* area, and its height becomes the square root of U16Max * height / width,
\* cut to a whole number.  width is 2 or more wherever the area is too
\* large, which keeps every product below 2^31.
RectNewHeight(width, height) ==
    IF width > 0 /\ height > U16Max \div width
    THEN ISqrtIn(0, U16Max,
                 (U16Max \div width) * height
                     + ((U16Max % width) * height) \div width)
    ELSE height

\* the width of Rect::new(x, y, width, height): the square root of
\* U16Max * width / height, cut to a whole number, where the area is too
\* large
RectNewWidth(width, height) ==
    IF height > 0 /\ width > U16Max \div height
    THEN ISqrtIn(0, U16Max,
                 (U16Max \div height) * width
                     + ((U16Max % height) * width) \div height)
    ELSE width

\* Rect::new(x, y, width, height), its size
RectNew(width, height) ==
    [width |-> RectNewWidth(width, height),
     height |-> RectNewHeight(width, height)]

\* Block::inner with Borders::ALL: a column and a row less on every side,
\* down to 0
BlockInner(area) ==
    [width |-> IF area.width < 2 THEN 0 ELSE area.width - 2,
     height |-> IF area.height < 2 THEN 0 ELSE area.height - 2]

\* Picker::render on a block whose inside is h rows by w columns, up to
\* the row budget.  The prompt area takes w - 1, the list area w - 3 and
\* h - 2, all u16: in a build with overflow checks a subtraction below
\* zero panics, in a build without them it wraps, and Rect::new shrinks the
\* wrapped area.  rows is the height of the list area, and a rows of 0
\* panics in the division of the offset.
RenderGeometry(h, w, overflowChecks) ==
    IF overflowChecks /\ w < 1
    THEN [status |-> "overflow", rows |-> 0]
    ELSE IF overflowChecks /\ (w < 3 \/ h < 2)
    THEN [status |-> "overflow", rows |-> 0]
    ELSE LET rows == RectNewHeight(WrappingSub(w, 3), WrappingSub(h, 2))
         IN  IF rows = 0
             THEN [status |-> "div_by_zero", rows |-> 0]
             ELSE [status |-> "running", rows |-> rows]

\* Picker::render from the row budget on: the window of the matches
DrawList(geometry) ==
    IF geometry.status # "running"
    THEN [status |-> geometry.status, window |-> NoWindow]
    ELSE [status |-> "running", window |-> WindowAt(geometry.rows)]

\* Picker::render on a block whose inside is h rows by w columns
PickerRenderOutcome(h, w, overflowChecks) ==
    DrawList(RenderGeometry(h, w, overflowChecks))

\* The geometries of the sizes the terminal may give and the build's
\* overflow checks.
InnerGeometries ==
    { RenderGeometry(h, w, overflowChecks) :
        h \in InnerHeights, w \in InnerWidths, overflowChecks \in BOOLEAN }

\* Picker::render
PickerRender ==
    /\ status = "running"
    /\ \E g \in InnerGeometries :
        /\ areaGeometry' = g
        /\ status' = DrawList(g).status
        /\ window' = DrawList(g).window
    /\ lastOp' = "render"
    /\ preview' = NotRendered
    /\ canon' = NoCanon
    /\ cursorBefore' = 0
    /\ rescored' = FALSE
    /\ scoredLine' = NoLine
    /\ UNCHANGED <<pickerVars, fileFn, preview_cache, documents, loads, firstLoad>>

Next ==
    \/ PickerRender
    \/ KeyUp \/ KeyDown \/ KeySaveFilter \/ KeyPrompt
    \/ KeyConfirm \/ KeyCancel \/ Resize

Spec == Init /\ [][Next]_vars

-----------------------------------------------------------------------------
(* A picker whose candidates are too many for the small sort *)

\* the least length the sort does not leave in the stable order
LongLen == SmallSortMax + 1

\* its candidates: the two kinds in turn
LongOptions ==
    [i \in 1..LongLen |-> IF i % 2 = 1 THEN "item_a" ELSE "item_ab"]

\* Its matchers: for the pattern "a", which matches every candidate, the
\* two kinds have different scores, either one the higher.
LongScorers ==
    { sc \in [ScoredPairs -> ScoreVals] :
        /\ sc[<<Format("item_a"), <<"a">> >>] # sc[<<Format("item_ab"), <<"a">> >>]
        /\ \A tp \in ScoredPairs : tp[2] # <<"a">> => sc[tp] = 1 }

\* Picker::new on these candidates
InitSort ==
    /\ PickerNew({LongOptions}, LongScorers)
    /\ fileFn = [item \in Items |-> NoFile]
    /\ preview_cache = <<>>
    /\ documents = {}
    /\ preview = NotRendered
    /\ window = NoWindow
    /\ canon = NoCanon
    /\ areaGeometry = NoGeometry
    /\ loads = [p \in Paths |-> 0]
    /\ firstLoad = [p \in Paths |-> "none"]

SpecSort == InitSort /\ [][Next]_vars

-----------------------------------------------------------------------------
(* FilePicker operations *)

\* A current_file that hands on the path although canonicalize_path failed.
CurrentFileUncanonicalized(canonOk) ==
    IF Selection = <<>> THEN NoFile
    ELSE fileFn[Selection[1]]

\* FilePicker::current_file: the canonical path of the highlighted candidate.
\* canonOk is the outcome of canonicalize_path, which asks the file system.
CurrentFile(canonOk) ==
    IF Selection = <<>> THEN NoFile
    ELSE IF fileFn[Selection[1]] = NoFile THEN NoFile
    ELSE IF ~canonOk THEN NoFile
    ELSE fileFn[Selection[1]]

\* FilePicker::current_file: whether canonicalize_path is reached, and its
\* answer
CanonResult(canonOk) ==
    IF Selection = <<>> THEN NotAsked
    ELSE IF fileFn[Selection[1]] = NoFile THEN NotAsked
    ELSE IF canonOk THEN "ok"
    ELSE "failed"

\* A load condition that forgets to ask the editor for an open document.
NeedsLoadIgnoringDocuments(cache, docs, path) == path \notin DOMAIN cache

\* A load condition that forgets to look into the cache.
NeedsLoadIgnoringCache(cache, docs, path) == path \notin docs

\* calculate_preview: the condition under which the file is opened
NeedsLoad(cache, docs, path) ==
    path \notin DOMAIN cache /\ path \notin docs

\* HashMap::insert
Insert(cache, path, doc) ==
    [p \in DOMAIN cache \cup {path} |-> IF p = path THEN doc ELSE cache[p]]

\* A lookup that prefers the cache entry to the open document.
PreviewLookupCacheFirst(cache, docs, path) ==
    IF path = NoFile THEN [path |-> NoFile, shown |-> "none", content |-> "none"]
    ELSE IF path \in DOMAIN cache
    THEN [path |-> path, shown |-> "cache", content |-> cache[path]]
    ELSE IF path \in docs
    THEN [path |-> path, shown |-> "document", content |-> "live"]
    ELSE [path |-> path, shown |-> "none", content |-> "none"]

\* render: editor.document_by_path(&path).or_else(|| preview_cache.get(&path))
PreviewLookup(cache, docs, path) ==
    IF path = NoFile THEN [path |-> NoFile, shown |-> "none", content |-> "none"]
    ELSE IF path \in docs
    THEN [path |-> path, shown |-> "document", content |-> "live"]
    ELSE IF path \in DOMAIN cache
    THEN [path |-> path, shown |-> "cache", content |-> cache[path]]
    ELSE [path |-> path, shown |-> "none", content |-> "none"]

\* The file functions a caller may give: every candidate has its own file,
\* two candidates share one file, or one candidate has no file at all.
FileFns ==
    { [item \in Items |-> IF item = "item_a" THEN "f1" ELSE "f2"],
      [item \in Items |-> "f1"],
      [item \in Items |-> IF item = "item_a" THEN NoFile ELSE "f2"] }

\* FilePicker::new (the editor's documents come and go by OpenDocument and
\* CloseDocument).  The matcher gives every match the same score, which
\* plays no part in the preview.
InitFile ==
    /\ PickerNew(OptionVecs(MaxFileOptions), {[tp \in ScoredPairs |-> 1]})
    /\ fileFn \in FileFns
    /\ preview_cache = <<>>
    /\ documents = {}
    /\ preview = NotRendered
    /\ window = NoWindow
    /\ canon = NoCanon
    /\ areaGeometry = NoGeometry
    /\ loads = [p \in Paths |-> 0]
    /\ firstLoad = [p \in Paths |-> "none"]

\* the least area.width that no longer goes without a preview
MIN_SCREEN_WIDTH_FOR_PREVIEW == 80

\* FilePicker::render: render_preview
RenderPreview(area) == area.width > MIN_SCREEN_WIDTH_FOR_PREVIEW

\* inner_rect: a tenth of the area is padding on every side
InnerRect(area) ==
    LET padding_vertical == WrappingMul(area.height, 10) \div 100
        padding_horizontal == WrappingMul(area.width, 10) \div 100
    IN  RectNew(WrappingSub(area.width, WrappingMul(padding_horizontal, 2)),
                WrappingSub(area.height, WrappingMul(padding_vertical, 2)))

\* FilePicker::render: picker_area, the left half of inner_rect(area) when
\* the preview is drawn and all of it otherwise
PickerArea(area) ==
    LET inner == InnerRect(area)
        picker_width == IF RenderPreview(area) THEN inner.width \div 2
                        ELSE inner.width
    IN  RectNew(picker_width, inner.height)

\* FilePicker::render on the area, up to the row budget of the list.  The
\* multiplications of inner_rect panic in a build with overflow checks
\* where they exceed the largest u16 (its subtractions cannot go below
\* zero then); the picker renders in the inside of the bordered block of
\* picker_area.
FileRenderGeometry(area, overflowChecks) ==
    IF overflowChecks /\ (area.height * 10 > U16Max \/ area.width * 10 > U16Max)
    THEN [status |-> "overflow", rows |-> 0]
    ELSE RenderGeometry(BlockInner(PickerArea(area)).height,
                        BlockInner(PickerArea(area)).width, overflowChecks)

\* What the areas the terminal may give and the build's overflow checks
\* come to: whether the preview is drawn, and the geometry of the list.
FileRenderCases ==
    { [wide |-> RenderPreview(area),
       geometry |-> FileRenderGeometry(area, overflowChecks)] :
        area \in FileAreas, overflowChecks \in BOOLEAN }

\* FilePicker::render: calculate_preview, then the picker's own render, then
\* (when the area is wide enough) the preview lookup.  canonCalc, opened,
\* the area with the build's overflow checks, and canonLookup are what
\* the file system, the terminal and the build profile give during this
\* render: whether canonicalize_path succeeds in the current_file of
\* calculate_preview, what Document::open returns, the area, which fixes
\* both whether the preview is drawn and the size of the picker's block,
\* and whether canonicalize_path succeeds in the current_file of the
\* preview lookup.
Render ==
    /\ status = "running"
    /\ \E canonCalc \in BOOLEAN, case \in FileRenderCases :
        LET path == CurrentFile(canonCalc)
            drawn == DrawList(case.geometry)
            \* self.picker.render(..), then the preview lookup
            draw(cache) ==
                /\ status' = drawn.status
                /\ window' = drawn.window
                /\ IF drawn.status # "running" \/ ~case.wide
                   THEN /\ preview' = NotRendered
                        /\ canon' = [calc |-> CanonResult(canonCalc),
                                     lookup |-> NotAsked]
                   ELSE \E canonLookup \in BOOLEAN :
                            /\ preview' = PreviewLookup(cache, documents,
                                              CurrentFile(canonLookup))
                            /\ canon' = [calc |-> CanonResult(canonCalc),
                                         lookup |-> CanonResult(canonLookup)]
        IN  /\ areaGeometry' = case.geometry
            /\ IF path # NoFile /\ NeedsLoad(preview_cache, documents, path)
               THEN \E opened \in Contents \cup {LoadError} :
                       /\ loads' = [loads EXCEPT ![path] = @ + 1]
                       /\ IF opened = LoadError
                          THEN \* Document::open(..).unwrap() panics
                               /\ status' = "panicked"
                               /\ preview' = NotRendered
                               /\ window' = NoWindow
                               /\ canon' = [calc |-> CanonResult(canonCalc),
                                            lookup |-> NotAsked]
                               /\ UNCHANGED <<preview_cache, firstLoad>>
                          ELSE /\ preview_cache' = Insert(preview_cache, path, opened)
                               /\ firstLoad' = IF firstLoad[path] = "none"
                                               THEN [firstLoad EXCEPT ![path] = opened]
                                               ELSE firstLoad
                               /\ draw(preview_cache')
               ELSE /\ draw(preview_cache)
                    /\ UNCHANGED <<preview_cache, loads, firstLoad>>
    /\ cursorBefore' = 0
    /\ rescored' = FALSE
    /\ scoredLine' = NoLine
    /\ lastOp' = "render"
    /\ UNCHANGED <<pickerVars, fileFn, documents>>

\* the editor opens a document (outside the picker)
OpenDocument ==
    /\ status = "running"
    /\ \E p \in Paths \ documents : documents' = documents \cup {p}
    /\ lastOp' = "editor"
    /\ preview' = NotRendered
    /\ window' = NoWindow
    /\ canon' = NoCanon
    /\ areaGeometry' = NoGeometry
    /\ cursorBefore' = 0
    /\ rescored' = FALSE
    /\ scoredLine' = NoLine
    /\ UNCHANGED <<pickerVars, fileFn, preview_cache, status, loads, firstLoad>>

\* the editor closes a document (outside the picker)
CloseDocument ==
    /\ status = "running"
    /\ \E p \in documents : documents' = documents \ {p}
    /\ lastOp' = "editor"
    /\ preview' = NotRendered
    /\ window' = NoWindow
    /\ canon' = NoCanon
    /\ areaGeometry' = NoGeometry
    /\ cursorBefore' = 0
    /\ rescored' = FALSE
    /\ scoredLine' = NoLine
    /\ UNCHANGED <<pickerVars, fileFn, preview_cache, status, loads, firstLoad>>

NextFile ==
    \/ KeyUp \/ KeyDown \/ KeySaveFilter \/ KeyPrompt
    \/ KeyConfirm \/ KeyCancel \/ Resize
    \/ Render \/ OpenDocument \/ CloseDocument

SpecFile == InitFile /\ [][NextFile]_vars

-----------------------------------------------------------------------------
(* Properties of the Picker *)

\* the candidate indices in matches
MatchIndices == {matches[k][1] : k \in 1..Len(matches)}

\* the candidate indices that match the current query
Matching == {i \in 0..(Len(options) - 1) :
                FuzzyMatch(Format(options[i + 1]), query) # NoScore}

\* C1: once save_filter has snapshotted a scope, every later matches has its
\* indices inside that scope (filters changes only in save_filter, so filters
\* is the scope of the last save), the empty scope included.
C1_MatchesWithinSavedScope == saved => MatchIndices \subseteq Range(filters)

\* C2: after every operation, the indices of matches are exactly the
\* candidates eligible under the scope (all of them before any save, the
\* members of the saved scope after) that the matcher scores for the current
\* query, and no index occurs twice.
C2_MatchesExact ==
    /\ MatchIndices =
          (IF saved THEN Range(filters) ELSE 0..(Len(options) - 1)) \cap Matching
    /\ Cardinality(MatchIndices) = Len(matches)

\* C3: matches is ordered by descending score, and entries of equal score
\* appear in ascending order of their candidate index.
C3_StableDescending ==
    \A k \in 1..(Len(matches) - 1) :
        \/ matches[k][2] > matches[k + 1][2]
        \/ matches[k][2] = matches[k + 1][2] /\ matches[k][1] < matches[k + 1][1]

\* C4: the cursor is inside matches when matches is non-empty and 0 when it
\* is empty.
C4_CursorInBounds ==
    IF matches = <<>> THEN cursor = 0
    ELSE 0 <= cursor /\ cursor < Len(matches)

\* C4 witness: move_down has been pressed with the cursor on the last entry
\* of a list of several matches.
C4_Witness ==
    /\ lastOp = "move_down"
    /\ Len(matches) >= 2
    /\ cursor = Len(matches) - 1

\* C5 as stated: right after save_filter the cursor is 0 and matches is a
\* rescan of the saved scope under the now-empty query.
C5_SaveRescans ==
    lastOp = "save_filter" =>
        /\ cursor = 0
        /\ filters # <<>> => matches \in ScoreOutcomes(options, filters, query)

\* C5 as amended: save_filter does not rescan; it leaves matches (entries,
\* scores and order) and the cursor exactly as they were, and the query is
\* empty afterwards.
C5_SaveKeepsView ==
    [][lastOp' = "save_filter" =>
            matches' = matches /\ cursor' = cursor /\ query' = <<>>]_vars

\* C5 witness: save_filter has run with the cursor off the first row and with
\* scores of the earlier query still in matches.
C5_Witness ==
    /\ lastOp = "save_filter"
    /\ cursor > 0
    /\ \E k \in 1..Len(matches) : matches[k][2] > 0

\* C6: save_filter leaves in filters exactly the indices of matches, in
\* strictly ascending order, and clears the query.
C6_SaveSnapshot ==
    lastOp = "save_filter" =>
        /\ Range(filters) = MatchIndices
        /\ \A k \in 1..(Len(filters) - 1) : filters[k] < filters[k + 1]
        /\ query = <<>>

\* C6 witness: save_filter has run on three matches that the scores had put
\* out of index order.
C6_Witness ==
    /\ lastOp = "save_filter"
    /\ Len(matches) = 3
    /\ matches[1][1] > matches[2][1]
    /\ filters = <<0, 1, 2>>
    /\ \E k \in 1..3 : matches[k][2] > 1

\* C7: each save_filter after the first produces a scope inside the scope of
\* the save before it.
C7_ScopeShrinks ==
    [][(saved /\ lastOp' = "save_filter") =>
            Range(filters') \subseteq Range(filters)]_vars

-----------------------------------------------------------------------------
(* Properties of the FilePicker *)

\* C8: Document::open is called at most once for each canonical path, and a
\* cache entry, once made, is neither removed nor replaced: the cache holds
\* what the first load of the path returned.
C8_LoadOnce ==
    \A p \in Paths :
        /\ loads[p] <= 1
        /\ firstLoad[p] # "none" =>
                p \in DOMAIN preview_cache /\ preview_cache[p] = firstLoad[p]

\* C8 witness: a render has looked up a path whose file was loaded earlier
\* and shows the cached content, with one load on record.
C8_Witness ==
    /\ lastOp = "render"
    /\ preview.shown = "cache"
    /\ loads[preview.path] = 1
    /\ \E p \in Paths \ {preview.path} : loads[p] = 1

\* C9: when the preview pane is drawn and the highlighted candidate's
\* canonical path is open in the editor, the pane shows the open document,
\* whatever the cache holds.
C9_LiveDocumentFirst ==
    (lastOp = "render" /\ preview.path # NoFile /\ preview.path \in documents)
        => preview.shown = "document"

\* C9 witness: the pane shows the open document of a path that also has a
\* cache entry, loaded before the document was opened.
C9_Witness ==
    /\ lastOp = "render"
    /\ preview.shown = "document"
    /\ preview.path \in DOMAIN preview_cache

\* C10: a failing file load never takes the picker down: no render ends in
\* the panic of the unwrap() on the load.
C10_LoadFailureRecoverable == lastOp = "render" => status # "panicked"

\* C11: a confirm key pressed on a non-empty list of matches calls
\* callback_fn exactly once, with the option the highlighted match points
\* at and the Action of that key (Replace for Enter, HorizontalSplit for
\* Ctrl-h, VerticalSplit for Ctrl-v), and the picker is closed.
C11_ConfirmDispatchesSelection ==
    (lastOp \in ConfirmKeys /\ matches # <<>>) =>
        /\ status = "closed"
        /\ Len(dispatched) = 1
        /\ dispatched[1].index = matches[cursor + 1][1]
        /\ dispatched[1].option = options[matches[cursor + 1][1] + 1]
        /\ lastOp = "enter" => dispatched[1].action = "Replace"
        /\ lastOp = "ctrl_h" => dispatched[1].action = "HorizontalSplit"
        /\ lastOp = "ctrl_v" => dispatched[1].action = "VerticalSplit"

\* a vertical-split confirm on a match that is neither the first of the
\* list nor at the position of its option
C11_Witness ==
    /\ lastOp = "ctrl_v"
    /\ status = "closed"
    /\ cursor > 0
    /\ Len(dispatched) = 1
    /\ dispatched[1].index # cursor
    /\ dispatched[1].action = "VerticalSplit"

\* C12: callback_fn is not called by a cancel, nor by a confirm key pressed
\* on an empty list of matches, and both close the picker; no event other
\* than a confirm key (cursor move, save_filter, prompt input, resize,
\* render) calls callback_fn.
C12_NoDispatchOtherwise ==
    /\ lastOp = "cancel" => (dispatched = <<>> /\ status = "closed")
    /\ (lastOp \in ConfirmKeys /\ matches = <<>>) =>
            (dispatched = <<>> /\ status = "closed")
    /\ lastOp \notin ConfirmKeys => dispatched = <<>>

\* a confirm on an empty list of matches over a non-empty list of options,
\* after the user has typed a pattern
C12_Witness ==
    /\ lastOp \in ConfirmKeys
    /\ matches = <<>>
    /\ options # <<>>
    /\ query # <<>>
    /\ dispatched = <<>>
    /\ status = "closed"

\* C13: every render of a non-empty list of matches, whatever row budget
\* the geometry leaves, computes its window without failing: the offset is
\* a multiple of the row budget, offset <= cursor < offset + rows, and the
\* highlighted row cursor - offset is one of the visible rows.
C13_WindowHoldsCursor ==
    (lastOp = "render" /\ matches # <<>>) =>
        /\ status = "running"
        /\ window.rows > 0
        /\ window.offset % window.rows = 0
        /\ window.offset <= cursor
        /\ cursor < window.offset + window.rows
        /\ cursor - window.offset < Len(window.visible)
        /\ window.visible[cursor - window.offset + 1] = matches[cursor + 1]

\* C14: score() runs only when the pattern has changed: a key the prompt
\* consumes without changing its line leaves matches and cursor as they
\* were.
C14_RescanOnlyOnChange ==
    [][(lastOp' = "score" /\ query' = query) =>
            (matches' = matches /\ cursor' = cursor)]_vars

\* C15: the cursor never wraps: move_up at 0 stays at 0, move_down at the
\* last match stays there, move_down on an empty list changes nothing, and
\* otherwise move_up subtracts one and move_down adds one.
C15_NoWrap ==
    /\ lastOp = "move_up" =>
            cursor = IF cursorBefore = 0 THEN 0 ELSE cursorBefore - 1
    /\ lastOp = "move_down" =>
            cursor = IF matches = <<>> THEN cursorBefore
                     ELSE IF cursorBefore = Len(matches) - 1 THEN cursorBefore
                     ELSE cursorBefore + 1

\* move_up was pressed on the first of several matches
C15_Witness ==
    /\ lastOp = "move_up"
    /\ cursorBefore = 0
    /\ cursor = 0
    /\ Len(matches) >= 2

\* C16: when canonicalize_path fails in calculate_preview, the file is not
\* opened and the cache is left as it was; no error comes of the failure:
\* the render ends exactly as the picker's own render of that area ends,
\* running wherever the area leaves the list a row; matches, cursor,
\* filters and the prompt line are unchanged.  When it fails in the preview
\* lookup, the pane shows no content.
C16_CanonFailureHarmless ==
    [][/\ (lastOp' = "render" /\ canon'.calc = "failed") =>
            /\ loads' = loads
            /\ preview_cache' = preview_cache
            /\ status' = areaGeometry'.status
            /\ UNCHANGED <<matches, cursor, filters, query, options>>
       /\ (lastOp' = "render" /\ canon'.lookup = "failed") =>
            (preview'.shown = "none" /\ preview'.content = "none")]_vars

\* a render drew an empty pane for a highlighted candidate whose file is
\* neither cached nor open, canonicalize_path having failed in both calls
C16_Witness ==
    /\ lastOp = "render"
    /\ status = "running"
    /\ canon = [calc |-> "failed", lookup |-> "failed"]
    /\ preview.shown = "none"
    /\ Selection # <<>>
    /\ fileFn[Selection[1]] \notin DOMAIN preview_cache \cup documents
    /\ cursor > 0

\* C17: no render opens a file, or makes a cache entry, for a path that is
\* open in the editor or already cached.
C17_NoCachedDuplicate ==
    [][\A p \in Paths :
            (loads'[p] > loads[p] \/
             (p \notin DOMAIN preview_cache /\ p \in DOMAIN preview_cache'))
                => (p \notin documents /\ p \notin DOMAIN preview_cache)]_vars

\* a render has drawn the open document of a path that canonicalizes, and
\* the path has neither a load nor a cache entry
C17_Witness ==
    /\ lastOp = "render"
    /\ canon.calc = "ok"
    /\ preview.shown = "document"
    /\ preview.path \in documents
    /\ preview.path \notin DOMAIN preview_cache
    /\ loads[preview.path] = 0

\* C20: in a render whose load, if any, did not fail, a preview lookup for
\* a highlighted candidate whose path canonicalizes finds the content of
\* that path: the open document or the cache entry.
C20_PreviewAvailable ==
    (lastOp = "render" /\ status # "panicked" /\ canon.lookup = "ok") =>
        /\ preview.path = fileFn[Selection[1]]
        /\ preview.shown \in {"document", "cache"}
        /\ preview.content # "none"

\* C18: score() is deterministic and idempotent: run a second time in a row
\* on the same options, filters and pattern it leaves exactly the matches of
\* the first run (indices, scores and order, ties included), and the cursor
\* is 0 after both runs.
C18_RescanIdempotent ==
    [][(lastOp \in {"new", "score"} /\ lastOp' = "score" /\ query' = query) =>
            (matches' = matches /\ cursor = 0 /\ cursor' = 0)]_vars

\* a second score() in a row, under saved filters and a pattern, on a
\* vector too long for the small sort, which has left two matches of equal
\* score in descending order of index
C18_Witness ==
    /\ rescored
    /\ lastOp = "score"
    /\ query # <<>>
    /\ filters # <<>>
    /\ Len(matches) = LongLen
    /\ \E k \in 1..(Len(matches) - 1) :
        /\ matches[k][2] = matches[k + 1][2]
        /\ matches[k][1] > matches[k + 1][1]

\* C19: no operation changes options; move_up and move_down change nothing
\* but the cursor; score() changes neither the filters nor the prompt line:
\* after it the filters are what they were and the line is the pattern it
\* read; a render changes nothing but the preview cache.
C19_Frame ==
    [][/\ options' = options
       /\ lastOp' \in {"move_up", "move_down"} =>
            UNCHANGED <<matches, filters, query, preview_cache, documents,
                        dispatched, status>>
       /\ lastOp' = "score" =>
            /\ filters' = filters
            /\ <<query'>> = scoredLine'
       /\ lastOp' = "render" =>
            UNCHANGED <<matches, cursor, filters, query, documents,
                        dispatched>>]_vars

\* a render has filled the cache with a second file while the picker holds
\* saved filters, a pattern and a cursor below the first match
C19_Witness ==
    /\ lastOp = "render"
    /\ Cardinality(DOMAIN preview_cache) = 2
    /\ filters # <<>>
    /\ query # <<>>
    /\ cursor > 0

====
